---- MODULE Spec2Model ----
(***************************************************************************)
(* OCI-registry ownership verification engine (ValidateOCI and helpers).   *)
(*                                                                         *)
(* Strings are modelled as sequences of tokens: the Go string is the       *)
(* concatenation of the tokens.  The tokens are cut so that every literal  *)
(* the code searches for ("/", "-docker.pkg.dev", ".gcr.io", ...) is a     *)
(* token of its own and occurs nowhere inside another token, so that       *)
(* strings.Contains / HasPrefix / Split on the tokens agree with the same  *)
(* functions on the characters.  fmt.Errorf / fmt.Sprintf are the          *)
(* concatenation of the pieces of the format string and of the arguments.  *)
(*                                                                         *)
(* One invocation of ValidateOCI is a sequence of steps separated by the   *)
(* outbound HTTP calls it blocks on: Call runs the code up to the first    *)
(* request, each On... action takes the answer to the request in flight    *)
(* and runs the code up to the next request or to the return.              *)
(***************************************************************************)
EXTENDS Integers, Sequences, FiniteSets, TLC

VARIABLES
    call,             \* arguments of the invocation: [pkg, serverName]
    pc,               \* where the invocation is blocked
    stage,            \* fetch the pending token request guards
    pkg,              \* local copy of pkg (RegistryBaseURL defaulted)
    apiBaseURL,       \* resolved API origin
    namespace, repo,  \* parsed image reference
    tag,              \* pkg.Version
    manifest,         \* decoded top-level manifest
    specificManifest, \* decoded platform-specific manifest
    configDigest,     \* resolved config digest
    config,           \* decoded image config
    requests,         \* outbound requests sent so far, in order
    replies,          \* answers received so far, in order
    logs,             \* lines written with log.Printf
    labelChecked,     \* the label lookup of the verifier was reached
    ret,              \* returned error (Nil: no error)
    aborted,          \* the call in flight was aborted: "none", "cancel"
                      \* (ctx cancelled) or "timeout" (client timeout)
    received,         \* the answers this invocation received, in full
    parked,           \* the locals of the invocation that is not running
    dpc,              \* where DeployLoggingStack is
    cluster,          \* its argument cluster (NilCluster: a nil pointer)
    environment,      \* its argument environment
    resources,        \* resources registered with the Pulumi context
    deployErr         \* the error DeployLoggingStack returned

\* the state of one invocation of ValidateOCI
ociVars == <<call, pc, stage, pkg, apiBaseURL, namespace, repo, tag,
             manifest, specificManifest, configDigest, config, requests,
             replies, logs, labelChecked, ret>>

\* the state of one call of DeployLoggingStack
deployVars == <<dpc, cluster, environment, resources, deployErr>>

\* a second invocation, for the runs of two invocations side by side
concVars == <<received, parked>>

vars == <<ociVars, aborted, concVars, deployVars>>

----------------------------------------------------------------------------
(* Bounds *)

\* longest manifest list a registry answers with
MaxManifests == 2

----------------------------------------------------------------------------
(* Strings *)

Empty == <<>>

\* a nil error
Nil == <<>>

\* strings.Contains(s, sub)
Contains(s, sub) ==
    \E i \in 0..(Len(s) - Len(sub)) : SubSeq(s, i + 1, i + Len(sub)) = sub

\* strings.HasPrefix(s, prefix)
HasPrefix(s, prefix) ==
    /\ Len(prefix) <= Len(s)
    /\ SubSeq(s, 1, Len(prefix)) = prefix

\* strings.Split(s, sep) for a one-token separator: the segments between
\* the occurrences of sep; a string without sep is one segment, the empty
\* string included.
RECURSIVE SplitFrom(_, _, _, _)
SplitFrom(s, sep, i, cur) ==
    IF i > Len(s) THEN <<cur>>
    ELSE IF s[i] = sep THEN <<cur>> \o SplitFrom(s, sep, i + 1, <<>>)
    ELSE SplitFrom(s, sep, i + 1, Append(cur, s[i]))

Split(s, sep) == SplitFrom(s, sep, 1, <<>>)

\* strings.Join(elems, sep)
RECURSIVE Join(_, _)
Join(elems, sep) ==
    IF Len(elems) = 0 THEN <<>>
    ELSE IF Len(elems) = 1 THEN elems[1]
    ELSE elems[1] \o sep \o Join(Tail(elems), sep)

\* the %d verb
Itoa(n) == <<ToString(n)>>

----------------------------------------------------------------------------
(* pkg/model/constants.go *)

RegistryURLDocker         == <<"https://", "docker.io">>
RegistryURLGHCR           == <<"https://", "ghcr.io">>
RegistryURLGAR            == <<"https://", "artifactregistry.googleapis.com">>
RegistryURLGCR            == <<"https://", "gcr.io">>
RegistryURLECR            == <<"https://", "public.ecr.aws">>
RegistryURLACR            == <<"https://", "azurecr.io">>
RegistryURLQuay           == <<"https://", "quay.io">>
RegistryURLGitLabCR       == <<"https://", "registry.gitlab.com">>
RegistryURLDockerHub      == <<"https://", "hub.docker.com">>
RegistryURLJFrogCR        == <<"https://", "jfrog.io">>
RegistryURLHarborCR       == <<"https://", "goharbor.io">>
RegistryURLAlibabaACR     == <<"https://", "cr.console.aliyun.com">>
RegistryURLIBMCR          == <<"https://", "icr.io">>
RegistryURLOracleCR       == <<"https://", "container-registry.oracle.com">>
RegistryURLDigitalOceanCR == <<"https://", "registry.digitalocean.com">>

dockerIoAPIBaseURL == <<"https://", "registry-1.docker.io">>

\* the map literal of ValidateOCI, as a set of <<key, value>> pairs
supportedRegistries ==
    { <<RegistryURLDocker,         dockerIoAPIBaseURL>>,
      <<RegistryURLGHCR,           <<"https://", "ghcr.io">> >>,
      <<RegistryURLGAR,            <<"https://", "artifactregistry.googleapis.com">> >>,
      <<RegistryURLGCR,            <<"https://", "gcr.io">> >>,
      <<RegistryURLECR,            <<"https://", "public.ecr.aws">> >>,
      <<RegistryURLACR,            <<"https://", "azurecr.io">> >>,
      <<RegistryURLQuay,           <<"https://", "quay.io">> >>,
      <<RegistryURLGitLabCR,       <<"https://", "registry.gitlab.com">> >>,
      <<RegistryURLDockerHub,      dockerIoAPIBaseURL>>,
      <<RegistryURLJFrogCR,        <<"https://", "jfrog.io">> >>,
      <<RegistryURLHarborCR,       <<"https://", "goharbor.io">> >>,
      <<RegistryURLAlibabaACR,     <<"https://", "cr.console.aliyun.com">> >>,
      <<RegistryURLIBMCR,          <<"https://", "icr.io">> >>,
      <<RegistryURLOracleCR,       <<"https://", "container-registry.oracle.com">> >>,
      <<RegistryURLDigitalOceanCR, <<"https://", "registry.digitalocean.com">> >> }

\* the keys of the map
SupportedKeys == { e[1] : e \in supportedRegistries }

\* supportedRegistries[key], for a key of the map
Lookup(key) == (CHOOSE e \in supportedRegistries : e[1] = key)[2]

\* FallbackMatches with the loopback prefixes cut before the colon
FallbackMatchesLoosePrefix(url) ==
    \/ Contains(url, <<"-docker.pkg.dev">>)
    \/ Contains(url, <<".gcr.io">>)
    \/ Contains(url, <<".amazonaws.com">>)
    \/ Contains(url, <<".azurecr.io">>)
    \/ HasPrefix(url, <<"http://127.0.0.1:">>)
    \/ HasPrefix(url, <<"http://localhost:">>)
    \/ HasPrefix(url, <<"http://localhost">>)

\* FallbackMatches looking for the markers at the end of the URL only
FallbackMatchesSuffixOnly(url) ==
    \/ url # Empty /\ url[Len(url)] \in { "-docker.pkg.dev", ".gcr.io",
                                          ".amazonaws.com", ".azurecr.io" }
    \/ HasPrefix(url, <<"http://127.0.0.1:">>)
    \/ HasPrefix(url, <<"http://localhost:">>)

\* the else-if chain of ValidateOCI for a URL that is not a key of the map
FallbackMatches(url) ==
    \/ Contains(url, <<"-docker.pkg.dev">>)
    \/ Contains(url, <<".gcr.io">>)
    \/ Contains(url, <<".amazonaws.com">>)
    \/ Contains(url, <<".azurecr.io">>)
    \/ HasPrefix(url, <<"http://127.0.0.1:">>)
    \/ HasPrefix(url, <<"http://localhost:">>)

supportedList ==
    << <<"docker.io">>, <<"ghcr.io">>, <<"gcr.io">>, <<"quay.io">>,
       <<"artifactregistry.googleapis.com">> >>

\* the registry is one the code accepts
Supported(url) == url \in SupportedKeys \/ FallbackMatches(url)

\* DefaultRegistryBaseURL without the default
DefaultRegistryBaseURLNone(url) == url

\* pkg.RegistryBaseURL after the default is filled in
DefaultRegistryBaseURL(url) ==
    IF url = Empty THEN RegistryURLDocker ELSE url

\* ResolveAPIBaseURL without the translation of the table
ResolveAPIBaseURLUntranslated(url) == url

\* apiBaseURL after the lookup and the fallback chain, for a supported URL
ResolveAPIBaseURL(url) ==
    IF url \in SupportedKeys THEN Lookup(url) ELSE url

ErrUnsupported(url) ==
    <<"unsupported OCI registry", ": '">> \o url
        \o <<"'. Supported registries: ">> \o Join(supportedList, <<", ">>)

----------------------------------------------------------------------------
(* parseImageReference *)

\* parseImageReference taking the first two of three or more parts
parseImageReferenceFirstTwo(identifier) ==
    LET parts == Split(identifier, "/") IN
    IF Len(parts) >= 2 THEN
        [namespace |-> parts[1], repo |-> parts[2], err |-> Nil]
    ELSE IF Len(parts) = 1 THEN
        [namespace |-> <<"library">>, repo |-> parts[1], err |-> Nil]
    ELSE
        [namespace |-> Empty, repo |-> Empty,
         err |-> <<"invalid image reference", ": ">> \o identifier]

\* parseImageReference without the default namespace
parseImageReferenceNoDefault(identifier) ==
    LET parts == Split(identifier, "/") IN
    IF Len(parts) = 2 THEN
        [namespace |-> parts[1], repo |-> parts[2], err |-> Nil]
    ELSE IF Len(parts) = 1 THEN
        [namespace |-> Empty, repo |-> parts[1], err |-> Nil]
    ELSE
        [namespace |-> Empty, repo |-> Empty,
         err |-> <<"invalid image reference", ": ">> \o identifier]

\* parseImageReference refusing the empty identifier
parseImageReferenceRejectsEmpty(identifier) ==
    LET parts == Split(identifier, "/") IN
    IF identifier = Empty THEN
        [namespace |-> Empty, repo |-> Empty,
         err |-> <<"invalid image reference", ": ">> \o identifier]
    ELSE IF Len(parts) = 2 THEN
        [namespace |-> parts[1], repo |-> parts[2], err |-> Nil]
    ELSE IF Len(parts) = 1 THEN
        [namespace |-> <<"library">>, repo |-> parts[1], err |-> Nil]
    ELSE
        [namespace |-> Empty, repo |-> Empty,
         err |-> <<"invalid image reference", ": ">> \o identifier]

\* [namespace, repo, err]
parseImageReference(identifier) ==
    LET parts == Split(identifier, "/") IN
    IF Len(parts) = 2 THEN
        [namespace |-> parts[1], repo |-> parts[2], err |-> Nil]
    ELSE IF Len(parts) = 1 THEN
        [namespace |-> <<"library">>, repo |-> parts[1], err |-> Nil]
    ELSE
        [namespace |-> Empty, repo |-> Empty,
         err |-> <<"invalid image reference", ": ">> \o identifier]

----------------------------------------------------------------------------
(* Inputs of one invocation *)

BaseURLs ==
    { Empty,
      RegistryURLDocker, RegistryURLDockerHub,
      RegistryURLGHCR, RegistryURLGitLabCR, RegistryURLGCR, RegistryURLACR,
      <<"https://", "us-central1", "-docker.pkg.dev">>,
      <<"https://", "us", ".gcr.io">>,
      <<"https://", "123456789012.dkr.ecr.us-east-1", ".amazonaws.com">>,
      <<"https://", "mycompany", ".azurecr.io">>,
      <<"http://localhost:", "5000">>,
      <<"http://127.0.0.1:", "8080">>,
      <<"http://localhost:", "namedport">>,
      <<"https://", "evil.example", "/x", "-docker.pkg.dev">>,
      <<"https://", "a", ".gcr.io", ".evil.example">>,
      <<"https://", "evil.example", "/?h=x", ".amazonaws.com">>,
      <<"https://", "x", ".azurecr.io", ".evil.example", "/path">>,
      <<"https://", "unsupported.registry.com">>,
      <<"https://", "docker.mycompany.com">>,
      <<"https://", "docker.io", "/v2">>,
      <<"https://", "myregistry.com", "/v2">>,
      <<"https://", "localhost:", "5000">>,
      <<"http://localhost">> }

Identifiers ==
    { Empty,
      <<"nginx">>,
      <<"test-namespace", "/", "test-repo">>,
      <<"test-namespace", "/">>,
      <<"/", "test-repo">>,
      <<"too", "/", "many", "/", "slashes">> }

Versions == { <<"latest">>, <<"%zz">> }

ServerNames == { <<"com.example/test-server">>, <<"com.wrong/server">> }

\* images of registries that nest repositories deeper than two segments
MultiSegmentPackages ==
    { [RegistryBaseURL |-> <<"https://", "us-central1", "-docker.pkg.dev">>,
       Identifier |-> <<"google-samples", "/", "containers", "/", "gke", "/",
                        "hello-app">>,
       Version |-> <<"1.0">>],
      [RegistryBaseURL |-> RegistryURLGitLabCR,
       Identifier |-> <<"gitlab-org", "/", "cluster-integration", "/",
                        "auto-build-image">>,
       Version |-> <<"latest">>] }

\* every base URL with one well-formed reference, every identifier and
\* version on the Docker Hub origin and on an anonymous one, and the
\* multi-segment images
Packages ==
    [RegistryBaseURL : BaseURLs,
     Identifier : { <<"test-namespace", "/", "test-repo">> },
     Version : { <<"latest">> }]
    \cup [RegistryBaseURL : { Empty, RegistryURLGHCR, <<"https://", "nowhere.example">> },
          Identifier : Identifiers, Version : Versions]
    \cup MultiSegmentPackages

----------------------------------------------------------------------------
(* What the remote side can answer *)

\* an optional JSON member: <<>> when absent, <<v>> when present
Opt(S) == { <<>> } \cup { <<v>> : v \in S }

Statuses == { 200, 204, 302, 401, 404, 429, 500 }

Digests == { <<"sha256:abc123">>, <<"sha256:def456">> }

\* a digest net/url refuses in a request URL
BadDigest == <<"%zz">>

ManifestEntries == [digest : Digests]

\* the lists of platform entries, and one whose first digest cannot be
\* put in a URL
ManifestLists ==
    UNION { [1..n -> ManifestEntries] : n \in 0..MaxManifests }
    \cup { << [digest |-> BadDigest] >> }

\* JSON documents that decode into OCIManifest
ManifestBodies ==
    [manifests : Opt(ManifestLists),
     config    : Opt([digest : Opt(Digests \cup { Empty, BadDigest })])]

OwnerLabel == <<"io.modelcontextprotocol.server.name">>
OtherLabel == <<"org.opencontainers.image.title">>

LabelMaps ==
    UNION { [K -> ServerNames] : K \in SUBSET { OwnerLabel, OtherLabel } }

\* JSON documents that decode into OCIImageConfig
ConfigBodies == [config : Opt([Labels : Opt(LabelMaps)])]

Tokens == { Empty, <<"tok1">> }

\* JSON documents that decode into OCIAuthResponse
TokenBodies == [token : Opt(Tokens)]

\* an answer: a transport error (connection failure, cancellation,
\* timeout), or a status and a body that is a JSON document or not
TransportError ==
    [transport |-> TRUE, status |-> 0, decodable |-> FALSE, body |-> <<>>]

\* bodies ranges over the documents a 200 answer carries; the code never
\* reads the body of another answer, which carries one of errBodies
Responses(bodies, errBodies) ==
    { TransportError }
    \cup { [transport |-> FALSE, status |-> s, decodable |-> FALSE,
            body |-> <<>>] : s \in Statuses }
    \cup { [transport |-> FALSE, status |-> 200, decodable |-> TRUE,
            body |-> <<b>>] : b \in bodies }
    \cup { [transport |-> FALSE, status |-> s, decodable |-> TRUE,
            body |-> <<b>>] : s \in Statuses \ { 200 }, b \in errBodies }

\* the token a token answer carries, empty when it carries none
ServedToken(resp) ==
    IF resp.decodable /\ resp.body[1].token # <<>>
    THEN resp.body[1].token[1] ELSE Empty

\* what the log of answers keeps of an answer; entries is the number of
\* platform entries of a manifest document, token the token of a token
\* answer
Summary(resp, entries, token) ==
    [transport |-> resp.transport, status |-> resp.status,
     decodable |-> resp.decodable, entries |-> entries, token |-> token]

----------------------------------------------------------------------------
(* json.Decode into the structs of the package: absent members keep the    *)
(* zero value                                                              *)

ZeroManifest == [Manifests |-> <<>>, Config |-> [Digest |-> Empty]]

NoLabels == [k \in {} |-> Empty]

ZeroConfig == [Config |-> [Labels |-> NoLabels]]

DecodeManifest(b) ==
    [Manifests |-> IF b.manifests = <<>> THEN <<>>
                   ELSE [i \in 1..Len(b.manifests[1]) |->
                            [Digest |-> b.manifests[1][i].digest]],
     Config |->
        [Digest |-> IF b.config = <<>> THEN Empty
                    ELSE IF b.config[1].digest = <<>> THEN Empty
                    ELSE b.config[1].digest[1]]]

\* the number of platform entries of the document an answer carries
Entries(resp) ==
    IF resp.decodable THEN Len(DecodeManifest(resp.body[1]).Manifests) ELSE 0

DecodeConfig(b) ==
    [Config |->
        [Labels |-> IF b.config = <<>> THEN NoLabels
                    ELSE IF b.config[1].Labels = <<>> THEN NoLabels
                    ELSE b.config[1].Labels[1]]]

DecodeAuth(b) ==
    [Token |-> IF b.token = <<>> THEN Empty ELSE b.token[1]]

----------------------------------------------------------------------------
(* Requests *)

\* http.NewRequestWithContext fails when net/url cannot parse the URL
BadURLTokens == { "%zz", "namedport" }

ValidURL(url) == \A i \in 1..Len(url) : url[i] \notin BadURLTokens

URLError == <<"<url error>">>
NetError == <<"<net error>">>
JSONError == <<"<json error>">>

AcceptManifest ==
    <<"application/vnd.docker.distribution.manifest.v2+json", ",",
      "application/vnd.oci.image.manifest.v1+json">>
AcceptSpecific == <<"application/vnd.oci.image.manifest.v1+json">>
AcceptConfig == <<"application/vnd.docker.distribution.manifest.v2+json">>
UserAgent == <<"MCP-Registry-Validator/1.0">>

ManifestURL(api, ns, rp, ref) ==
    api \o <<"/v2/">> \o ns \o <<"/">> \o rp \o <<"/manifests/">> \o ref

ConfigURL(api, ns, rp, digest) ==
    api \o <<"/v2/">> \o ns \o <<"/">> \o rp \o <<"/blobs/">> \o digest

\* AuthURL with a scope that leaves the namespace out
AuthURLRepositoryOnly(ns, rp) ==
    <<"https://", "auth.docker.io", "/token?service=registry.docker.io",
      "&scope=", "repository:">> \o rp \o <<":pull">>

AuthURL(ns, rp) ==
    <<"https://", "auth.docker.io", "/token?service=registry.docker.io",
      "&scope=", "repository:">> \o ns \o <<"/">> \o rp \o <<":pull">>

Accept(st) ==
    CASE st = "manifest" -> AcceptManifest
      [] st = "specific" -> AcceptSpecific
      [] st = "config"   -> AcceptConfig

\* a manifest or blob request; auth is <<>> or <<header value>>
FetchRequest(st, url, auth) ==
    [kind |-> st, url |-> url, Authorization |-> auth,
     Accept |-> Accept(st), UserAgent |-> UserAgent]

TokenRequest(ns, rp) ==
    [kind |-> "token", url |-> AuthURL(ns, rp), Authorization |-> <<>>,
     Accept |-> Empty, UserAgent |-> Empty]

Ref(ns, rp, tg) == ns \o <<"/">> \o rp \o <<":">> \o tg

----------------------------------------------------------------------------
(* Error values *)

AuthFailed == <<"failed to authenticate with Docker registry", ": ">>

\* the prefix ValidateOCI puts before an error of getSpecificManifest or
\* getImageConfig
Wrap(st, e) ==
    CASE st = "manifest" -> e
      [] st = "specific" -> <<"failed to get specific manifest", ": ">> \o e
      [] st = "config"   -> <<"failed to get image config", ": ">> \o e

CreateRequestError(st) ==
    CASE st = "manifest" -> <<"failed to create manifest request", ": ">>
      [] st = "specific" -> <<"failed to create specific manifest request", ": ">>
      [] st = "config"   -> <<"failed to create config request", ": ">>

\* AuthTokenError refusing an answer without a token
AuthTokenErrorRejectsEmptyToken(resp) ==
    IF resp.transport THEN
        <<"failed to request auth token", ": ">> \o NetError
    ELSE IF resp.status # 200 THEN
        <<"auth request failed with status ">> \o Itoa(resp.status)
    ELSE IF ~resp.decodable THEN
        <<"failed to parse auth response", ": ">> \o JSONError
    ELSE IF DecodeAuth(resp.body[1]).Token = Empty THEN
        <<"auth response carries no token">>
    ELSE Nil

\* AuthTokenError without the check of the status
AuthTokenErrorIgnoresStatus(resp) ==
    IF resp.transport THEN
        <<"failed to request auth token", ": ">> \o NetError
    ELSE IF ~resp.decodable THEN
        <<"failed to parse auth response", ": ">> \o JSONError
    ELSE Nil

\* getDockerIoAuthToken: the error for an answer, Nil when a token is read
AuthTokenError(resp) ==
    IF resp.transport THEN
        <<"failed to request auth token", ": ">> \o NetError
    ELSE IF resp.status # 200 THEN
        <<"auth request failed with status ">> \o Itoa(resp.status)
    ELSE IF ~resp.decodable THEN
        <<"failed to parse auth response", ": ">> \o JSONError
    ELSE Nil

\* ManifestStatus with 500 skipped like 429
ManifestStatusSkipsServerError(status, ns, rp, tg) ==
    IF status = 404 \/ status = 401 THEN
        [outcome |-> "error",
         err |-> <<"OCI image '">> \o Ref(ns, rp, tg)
                  \o <<"' ", "not found", " (status: ">> \o Itoa(status)
                  \o <<")">>]
    ELSE IF status = 429 \/ status = 500 THEN
        [outcome |-> "skip", err |-> Nil]
    ELSE IF status # 200 THEN
        [outcome |-> "error",
         err |-> <<"failed to fetch OCI manifest", " (status: ">>
                  \o Itoa(status) \o <<")">>]
    ELSE [outcome |-> "ok", err |-> Nil]

\* ManifestStatus without the 429 case
ManifestStatusNoSkip(status, ns, rp, tg) ==
    IF status = 404 \/ status = 401 THEN
        [outcome |-> "error",
         err |-> <<"OCI image '">> \o Ref(ns, rp, tg)
                  \o <<"' ", "not found", " (status: ">> \o Itoa(status)
                  \o <<")">>]
    ELSE IF status # 200 THEN
        [outcome |-> "error",
         err |-> <<"failed to fetch OCI manifest", " (status: ">>
                  \o Itoa(status) \o <<")">>]
    ELSE [outcome |-> "ok", err |-> Nil]

\* ManifestStatus with 401 left to the generic case
ManifestStatusOnly404(status, ns, rp, tg) ==
    IF status = 404 THEN
        [outcome |-> "error",
         err |-> <<"OCI image '">> \o Ref(ns, rp, tg)
                  \o <<"' ", "not found", " (status: ">> \o Itoa(status)
                  \o <<")">>]
    ELSE IF status = 429 THEN
        [outcome |-> "skip", err |-> Nil]
    ELSE IF status # 200 THEN
        [outcome |-> "error",
         err |-> <<"failed to fetch OCI manifest", " (status: ">>
                  \o Itoa(status) \o <<")">>]
    ELSE [outcome |-> "ok", err |-> Nil]

\* ManifestStatus accepting every 2xx status
ManifestStatusAny2xx(status, ns, rp, tg) ==
    IF status = 404 \/ status = 401 THEN
        [outcome |-> "error",
         err |-> <<"OCI image '">> \o Ref(ns, rp, tg)
                  \o <<"' ", "not found", " (status: ">> \o Itoa(status)
                  \o <<")">>]
    ELSE IF status = 429 THEN
        [outcome |-> "skip", err |-> Nil]
    ELSE IF status < 200 \/ status >= 300 THEN
        [outcome |-> "error",
         err |-> <<"failed to fetch OCI manifest", " (status: ">>
                  \o Itoa(status) \o <<")">>]
    ELSE [outcome |-> "ok", err |-> Nil]

\* ValidateOCI: the status checks on the answer to the manifest request.
\* "skip": rate limited, return nil; "ok": go on and decode; else the error.
ManifestStatus(status, ns, rp, tg) ==
    IF status = 404 \/ status = 401 THEN
        [outcome |-> "error",
         err |-> <<"OCI image '">> \o Ref(ns, rp, tg)
                  \o <<"' ", "not found", " (status: ">> \o Itoa(status)
                  \o <<")">>]
    ELSE IF status = 429 THEN
        [outcome |-> "skip", err |-> Nil]
    ELSE IF status # 200 THEN
        [outcome |-> "error",
         err |-> <<"failed to fetch OCI manifest", " (status: ">>
                  \o Itoa(status) \o <<")">>]
    ELSE [outcome |-> "ok", err |-> Nil]

\* SpecificManifestError reporting a decode failure as a fetch failure
SpecificManifestErrorParseAsFetch(resp) ==
    IF resp.transport THEN
        <<"failed to fetch specific manifest", ": ">> \o NetError
    ELSE IF resp.status # 200 THEN
        <<"specific manifest not found", " (status: ">>
            \o Itoa(resp.status) \o <<")">>
    ELSE IF ~resp.decodable THEN
        <<"failed to fetch specific manifest", ": ">> \o JSONError
    ELSE Nil

\* SpecificManifestError without the check of the status
SpecificManifestErrorIgnoresStatus(resp) ==
    IF resp.transport THEN
        <<"failed to fetch specific manifest", ": ">> \o NetError
    ELSE IF ~resp.decodable THEN
        <<"failed to parse specific manifest", ": ">> \o JSONError
    ELSE Nil

\* getSpecificManifest: the error for an answer, Nil when it decodes
SpecificManifestError(resp) ==
    IF resp.transport THEN
        <<"failed to fetch specific manifest", ": ">> \o NetError
    ELSE IF resp.status # 200 THEN
        <<"specific manifest not found", " (status: ">>
            \o Itoa(resp.status) \o <<")">>
    ELSE IF ~resp.decodable THEN
        <<"failed to parse specific manifest", ": ">> \o JSONError
    ELSE Nil

\* ImageConfigError accepting every 2xx status
ImageConfigErrorAny2xx(resp) ==
    IF resp.transport THEN
        <<"failed to fetch image config", ": ">> \o NetError
    ELSE IF resp.status < 200 \/ resp.status >= 300 THEN
        <<"image config not found", " (status: ">>
            \o Itoa(resp.status) \o <<")">>
    ELSE IF ~resp.decodable THEN
        <<"failed to parse image config", ": ">> \o JSONError
    ELSE Nil

\* getImageConfig: the error for an answer, Nil when it decodes
ImageConfigError(resp) ==
    IF resp.transport THEN
        <<"failed to fetch image config", ": ">> \o NetError
    ELSE IF resp.status # 200 THEN
        <<"image config not found", " (status: ">>
            \o Itoa(resp.status) \o <<")">>
    ELSE IF ~resp.decodable THEN
        <<"failed to parse image config", ": ">> \o JSONError
    ELSE Nil

ErrNoConfigDigest(ns, rp, tg) ==
    <<"unable to determine image config digest", " for '">>
        \o Ref(ns, rp, tg) \o <<"'">>

\* VerifyOwnership passing an image without the label
VerifyOwnershipAbsentPasses(labels, owner, ns, rp, tg) ==
    IF OwnerLabel \notin DOMAIN labels THEN Nil
    ELSE IF labels[OwnerLabel] # owner THEN
        <<"OCI image ", "ownership validation failed",
          ". Expected annotation 'io.modelcontextprotocol.server.name' = '">>
            \o owner \o <<"', got '">> \o labels[OwnerLabel] \o <<"'">>
    ELSE Nil

\* the label lookup and comparison that end ValidateOCI
VerifyOwnership(labels, owner, ns, rp, tg) ==
    IF OwnerLabel \notin DOMAIN labels THEN
        <<"OCI image '">> \o Ref(ns, rp, tg)
            \o <<"' is ", "missing required annotation",
                 ". Add this to your Dockerfile: ",
                 "LABEL io.modelcontextprotocol.server.name=\"">>
            \o owner \o <<"\"">>
    ELSE IF labels[OwnerLabel] # owner THEN
        <<"OCI image ", "ownership validation failed",
          ". Expected annotation 'io.modelcontextprotocol.server.name' = '">>
            \o owner \o <<"', got '">> \o labels[OwnerLabel] \o <<"'">>
    ELSE Nil

RateLimitWarning(ns, rp, tg) ==
    <<"Warning: Rate limited when accessing OCI image '">>
        \o Ref(ns, rp, tg) \o <<"'. Skipping validation.">>

----------------------------------------------------------------------------
(* Steps of one invocation *)

Init ==
    /\ call = [pkg |-> [RegistryBaseURL |-> Empty, Identifier |-> Empty,
                        Version |-> Empty],
               serverName |-> Empty]
    /\ pc = "idle"
    /\ stage = "none"
    /\ pkg = [RegistryBaseURL |-> Empty, Identifier |-> Empty,
              Version |-> Empty]
    /\ apiBaseURL = Empty
    /\ namespace = Empty
    /\ repo = Empty
    /\ tag = Empty
    /\ manifest = ZeroManifest
    /\ specificManifest = ZeroManifest
    /\ configDigest = Empty
    /\ config = ZeroConfig
    /\ requests = <<>>
    /\ replies = <<>>
    /\ logs = <<>>
    /\ labelChecked = FALSE
    /\ ret = Nil
    /\ aborted = "none"
    /\ received = <<>>
    /\ parked =
          [call |-> [pkg |-> [RegistryBaseURL |-> Empty,
                              Identifier |-> Empty, Version |-> Empty],
                     serverName |-> Empty],
           pc |-> "idle", stage |-> "none",
           pkg |-> [RegistryBaseURL |-> Empty, Identifier |-> Empty,
                    Version |-> Empty],
           apiBaseURL |-> Empty, namespace |-> Empty, repo |-> Empty,
           tag |-> Empty, manifest |-> ZeroManifest,
           specificManifest |-> ZeroManifest, configDigest |-> Empty,
           config |-> ZeroConfig, requests |-> <<>>, replies |-> <<>>,
           labelChecked |-> FALSE, ret |-> Nil, received |-> <<>>]
    /\ dpc = "idle"
    /\ cluster = <<>>
    /\ environment = Empty
    /\ resources = <<>>
    /\ deployErr = Nil

\* how a step ends: blocked on a request it sent, or returned
Return(e) == [pc |-> "done", ret |-> e, sent |-> <<>>]

\* Await handling the platform manifest as a top-level manifest
AwaitSpecificAsManifest(st) ==
    CASE st = "manifest" -> "awaitManifest"
      [] st = "specific" -> "awaitManifest"
      [] st = "config"   -> "awaitConfig"

Await(st) ==
    CASE st = "manifest" -> "awaitManifest"
      [] st = "specific" -> "awaitSpecific"
      [] st = "config"   -> "awaitConfig"

FetchURL(st, api, ns, rp, ref) ==
    IF st = "config" THEN ConfigURL(api, ns, rp, ref)
    ELSE ManifestURL(api, ns, rp, ref)

\* BeginFetch asking for a token whatever the origin
BeginFetchTokenForAll(st, api, ns, rp, ref) ==
    LET url == FetchURL(st, api, ns, rp, ref) IN
    IF ~ValidURL(url) THEN
        Return(Wrap(st, CreateRequestError(st) \o URLError))
    ELSE IF ~ValidURL(AuthURL(ns, rp)) THEN
        Return(Wrap(st, AuthFailed
            \o <<"failed to create auth request", ": ">> \o URLError))
    ELSE
        [pc |-> "awaitToken", ret |-> Nil,
         sent |-> << TokenRequest(ns, rp) >>]

\* BeginFetch sending the later fetches with the token of the first
BeginFetchReusesToken(st, api, ns, rp, ref) ==
    LET url == FetchURL(st, api, ns, rp, ref) IN
    IF ~ValidURL(url) THEN
        Return(Wrap(st, CreateRequestError(st) \o URLError))
    ELSE IF api = dockerIoAPIBaseURL /\ st = "manifest" THEN
        IF ~ValidURL(AuthURL(ns, rp)) THEN
            Return(Wrap(st, AuthFailed
                \o <<"failed to create auth request", ": ">> \o URLError))
        ELSE
            [pc |-> "awaitToken", ret |-> Nil,
             sent |-> << TokenRequest(ns, rp) >>]
    ELSE
        [pc |-> Await(st), ret |-> Nil,
         sent |-> << FetchRequest(st, url,
                        IF requests = <<>> THEN <<>>
                        ELSE requests[Len(requests)].Authorization) >>]

\* the part the three fetches share: create the request, and either ask
\* for a token first (Docker Hub origin) or send the request anonymously
BeginFetch(st, api, ns, rp, ref) ==
    LET url == FetchURL(st, api, ns, rp, ref) IN
    IF ~ValidURL(url) THEN
        Return(Wrap(st, CreateRequestError(st) \o URLError))
    ELSE IF api = dockerIoAPIBaseURL THEN
        IF ~ValidURL(AuthURL(ns, rp)) THEN
            Return(Wrap(st, AuthFailed
                \o <<"failed to create auth request", ": ">> \o URLError))
        ELSE
            [pc |-> "awaitToken", ret |-> Nil,
             sent |-> << TokenRequest(ns, rp) >>]
    ELSE
        [pc |-> Await(st), ret |-> Nil,
         sent |-> << FetchRequest(st, url, <<>>) >>]

\* AfterDigest without the check for an empty digest
AfterDigestUnchecked(digest, api, ns, rp, tg) ==
    BeginFetch("config", api, ns, rp, digest)

\* the code after the config digest is known
AfterDigest(digest, api, ns, rp, tg) ==
    IF digest = Empty THEN Return(ErrNoConfigDigest(ns, rp, tg))
    ELSE BeginFetch("config", api, ns, rp, digest)

\* PlatformDigest taking the last entry
PlatformDigestLast(m) == m.Manifests[Len(m.Manifests)].Digest

\* the platform entry of a manifest list whose manifest is fetched
PlatformDigest(m) == m.Manifests[1].Digest

\* the reference (tag or digest) of the fetch a pending token guards
PendingRef ==
    CASE stage = "manifest" -> tag
      [] stage = "specific" -> PlatformDigest(manifest)
      [] stage = "config"   -> configDigest

\* the step ends as o says; st is the fetch it is then engaged in
Goto(o, st) ==
    /\ pc' = o.pc
    /\ ret' = o.ret
    /\ requests' = requests \o o.sent
    /\ stage' = IF o.pc = "done" THEN stage ELSE st

\* the decoded manifests are locals of ValidateOCI: gone once it returned
Live(o, m) == IF o.pc = "done" THEN ZeroManifest ELSE m

\* Call parsing the identifier before it checks the registry
CallParsesFirst(p, owner) ==
    /\ pc = "idle"
    /\ call' = [pkg |-> p, serverName |-> owner]
    /\ LET base == DefaultRegistryBaseURL(p.RegistryBaseURL)
           ref  == parseImageReference(p.Identifier)
           api  == ResolveAPIBaseURL(base)
       IN
       /\ pkg' = [p EXCEPT !.RegistryBaseURL = base]
       /\ IF ref.err # Nil THEN
              /\ Goto(Return(<<"invalid OCI image reference", ": ">>
                             \o ref.err), "none")
              /\ UNCHANGED <<apiBaseURL, namespace, repo, tag>>
          ELSE IF ~Supported(base) THEN
              /\ Goto(Return(ErrUnsupported(base)), "none")
              /\ UNCHANGED <<apiBaseURL, namespace, repo, tag>>
          ELSE
              /\ apiBaseURL' = api
              /\ namespace' = ref.namespace
              /\ repo' = ref.repo
              /\ tag' = p.Version
              /\ Goto(BeginFetch("manifest", api, ref.namespace, ref.repo,
                                 p.Version), "manifest")
    /\ UNCHANGED <<manifest, specificManifest, configDigest, config,
                   replies, logs, labelChecked>>

\* ValidateOCI(ctx, p, owner) up to its first outbound request
Call(p, owner) ==
    /\ pc = "idle"
    /\ call' = [pkg |-> p, serverName |-> owner]
    /\ LET base == DefaultRegistryBaseURL(p.RegistryBaseURL)
           ref  == parseImageReference(p.Identifier)
           api  == ResolveAPIBaseURL(base)
       IN
       /\ pkg' = [p EXCEPT !.RegistryBaseURL = base]
       /\ IF ~Supported(base) THEN
              /\ Goto(Return(ErrUnsupported(base)), "none")
              /\ UNCHANGED <<apiBaseURL, namespace, repo, tag>>
          ELSE IF ref.err # Nil THEN
              /\ Goto(Return(<<"invalid OCI image reference", ": ">>
                             \o ref.err), "none")
              /\ apiBaseURL' = api
              /\ UNCHANGED <<namespace, repo, tag>>
          ELSE
              /\ apiBaseURL' = api
              /\ namespace' = ref.namespace
              /\ repo' = ref.repo
              /\ tag' = p.Version
              /\ Goto(BeginFetch("manifest", api, ref.namespace, ref.repo,
                                 p.Version), "manifest")
    /\ UNCHANGED <<manifest, specificManifest, configDigest, config,
                   replies, logs, labelChecked>>

\* the answer to a token request: getDockerIoAuthToken returns, and the
\* fetch it guards is sent with the token
OnToken(resp) ==
    /\ pc = "awaitToken"
    /\ replies' = Append(replies, Summary(resp, 0, ServedToken(resp)))
    /\ LET o == IF AuthTokenError(resp) # Nil THEN
                    Return(Wrap(stage, AuthFailed \o AuthTokenError(resp)))
                ELSE
                    [pc |-> Await(stage), ret |-> Nil,
                     sent |-> << FetchRequest(stage,
                         FetchURL(stage, apiBaseURL, namespace, repo,
                                  PendingRef),
                         << <<"Bearer ">>
                            \o DecodeAuth(resp.body[1]).Token >>) >>]
       IN
       /\ Goto(o, stage)
       /\ manifest' = Live(o, manifest)
       /\ specificManifest' = Live(o, specificManifest)
    /\ UNCHANGED <<call, pkg, apiBaseURL, namespace, repo, tag, configDigest,
                   config, logs, labelChecked>>

\* the answer to the manifest request
OnManifest(resp) ==
    /\ pc = "awaitManifest"
    /\ replies' = Append(replies, Summary(resp, Entries(resp), Empty))
    /\ LET st == ManifestStatus(resp.status, namespace, repo, tag)
           m  == DecodeManifest(resp.body[1])
       IN
       IF resp.transport THEN
           /\ Goto(Return(<<"failed to fetch OCI manifest", ": ">>
                          \o NetError), stage)
           /\ UNCHANGED <<manifest, configDigest, logs>>
       ELSE IF st.outcome = "error" THEN
           /\ Goto(Return(st.err), stage)
           /\ UNCHANGED <<manifest, configDigest, logs>>
       ELSE IF st.outcome = "skip" THEN
           /\ logs' = Append(logs, RateLimitWarning(namespace, repo, tag))
           /\ Goto(Return(Nil), stage)
           /\ UNCHANGED <<manifest, configDigest>>
       ELSE IF ~resp.decodable THEN
           /\ Goto(Return(<<"failed to parse OCI manifest", ": ">>
                          \o JSONError), stage)
           /\ UNCHANGED <<manifest, configDigest, logs>>
       ELSE IF Len(m.Manifests) > 0 THEN
           LET o == BeginFetch("specific", apiBaseURL, namespace, repo,
                               PlatformDigest(m))
           IN
           /\ Goto(o, "specific")
           /\ manifest' = Live(o, m)
           /\ UNCHANGED <<configDigest, logs>>
       ELSE
           LET o == AfterDigest(m.Config.Digest, apiBaseURL, namespace,
                                repo, tag)
           IN
           /\ configDigest' = m.Config.Digest
           /\ Goto(o, "config")
           /\ manifest' = Live(o, m)
           /\ UNCHANGED logs
    /\ UNCHANGED <<call, pkg, apiBaseURL, namespace, repo, tag,
                   specificManifest, config, labelChecked>>

\* OnSpecific following the entries of a nested manifest list
OnSpecificFollowsList(resp) ==
    /\ pc = "awaitSpecific"
    /\ replies' = Append(replies, Summary(resp, Entries(resp), Empty))
    /\ IF SpecificManifestError(resp) # Nil THEN
           /\ Goto(Return(Wrap("specific", SpecificManifestError(resp))),
                   stage)
           /\ manifest' = ZeroManifest
           /\ UNCHANGED <<specificManifest, configDigest>>
       ELSE
           LET m == DecodeManifest(resp.body[1])
               o == IF Len(m.Manifests) > 0 THEN
                        BeginFetch("specific", apiBaseURL, namespace, repo,
                                   PlatformDigest(m))
                    ELSE AfterDigest(m.Config.Digest, apiBaseURL, namespace,
                                     repo, tag)
           IN
           /\ configDigest' = m.Config.Digest
           /\ Goto(o, IF Len(m.Manifests) > 0 THEN "specific" ELSE "config")
           /\ specificManifest' = Live(o, m)
           /\ manifest' = Live(o, IF Len(m.Manifests) > 0 THEN m
                                  ELSE manifest)
    /\ UNCHANGED <<call, pkg, apiBaseURL, namespace, repo, tag, config, logs,
                   labelChecked>>

\* the answer to the platform-specific manifest request
OnSpecific(resp) ==
    /\ pc = "awaitSpecific"
    /\ replies' = Append(replies, Summary(resp, Entries(resp), Empty))
    /\ IF SpecificManifestError(resp) # Nil THEN
           /\ Goto(Return(Wrap("specific", SpecificManifestError(resp))),
                   stage)
           /\ manifest' = ZeroManifest
           /\ UNCHANGED <<specificManifest, configDigest>>
       ELSE
           LET m == DecodeManifest(resp.body[1])
               o == AfterDigest(m.Config.Digest, apiBaseURL, namespace,
                                repo, tag)
           IN
           /\ configDigest' = m.Config.Digest
           /\ Goto(o, "config")
           /\ specificManifest' = Live(o, m)
           /\ manifest' = Live(o, manifest)
    /\ UNCHANGED <<call, pkg, apiBaseURL, namespace, repo, tag, config, logs,
                   labelChecked>>

\* the answer to the config blob request
OnConfig(resp) ==
    /\ pc = "awaitConfig"
    /\ replies' = Append(replies, Summary(resp, 0, Empty))
    /\ IF ImageConfigError(resp) # Nil THEN
           /\ Goto(Return(Wrap("config", ImageConfigError(resp))), stage)
           /\ UNCHANGED <<config, labelChecked>>
       ELSE
           LET c == DecodeConfig(resp.body[1]) IN
           /\ config' = c
           /\ labelChecked' = TRUE
           /\ Goto(Return(VerifyOwnership(c.Config.Labels, call.serverName,
                                          namespace, repo, tag)), stage)
    /\ manifest' = ZeroManifest
    /\ specificManifest' = ZeroManifest
    /\ UNCHANGED <<call, pkg, apiBaseURL, namespace, repo, tag, configDigest,
                   logs>>

TokenResponses == Responses(TokenBodies, TokenBodies)

\* an answer other than 200 may carry a well-formed manifest all the same
ManifestResponses ==
    Responses(ManifestBodies,
        { [manifests |-> <<>>,
           config |-> << [digest |-> << <<"sha256:abc123">> >>] >>],
          [manifests |-> << << [digest |-> <<"sha256:abc123">>] >> >>,
           config |-> <<>>] })

\* an answer other than 200 may carry a well-formed config all the same
ConfigResponses ==
    Responses(ConfigBodies,
        { [config |-> << [Labels |-> << [k \in { OwnerLabel } |-> owner] >>] >>]
          : owner \in ServerNames })

\* one invocation whose calls are answered by the remote side, a transport
\* error standing for every way a call can fail
Next ==
    \/ \E p \in Packages, owner \in ServerNames :
          Call(p, owner) /\ UNCHANGED <<aborted, concVars, deployVars>>
    \/ \E resp \in TokenResponses :
          OnToken(resp) /\ UNCHANGED <<aborted, concVars, deployVars>>
    \/ \E resp \in ManifestResponses :
          OnManifest(resp) /\ UNCHANGED <<aborted, concVars, deployVars>>
    \/ \E resp \in ManifestResponses :
          OnSpecific(resp) /\ UNCHANGED <<aborted, concVars, deployVars>>
    \/ \E resp \in ConfigResponses :
          OnConfig(resp) /\ UNCHANGED <<aborted, concVars, deployVars>>

Spec == Init /\ [][Next]_vars

----------------------------------------------------------------------------
(* Cancellation and timeout: every request is made with                    *)
(* http.NewRequestWithContext(ctx, ...) and sent by a client with          *)
(* Timeout: 10 * time.Second                                               *)

\* OutcomesOf of a call that is bound to no context and no timeout
OutcomesOfUnbound(ab, answers) == answers

\* what client.Do can return for the call in flight: once the context is
\* cancelled or the timeout has expired, the error of the aborted call
OutcomesOf(ab, answers) ==
    IF ab = "none" THEN answers ELSE { TransportError }

Waiting ==
    pc \in { "awaitToken", "awaitManifest", "awaitSpecific", "awaitConfig" }

\* the caller cancels ctx while a call is in flight
Cancel ==
    /\ Waiting
    /\ aborted = "none"
    /\ aborted' = "cancel"
    /\ UNCHANGED <<ociVars, concVars, deployVars>>

\* the timeout of the client expires while a call is in flight
Expire ==
    /\ Waiting
    /\ aborted = "none"
    /\ aborted' = "timeout"
    /\ UNCHANGED <<ociVars, concVars, deployVars>>

\* client.Do returns for the call in flight
Complete ==
    /\ UNCHANGED <<aborted, concVars, deployVars>>
    /\ \/ \E resp \in OutcomesOf(aborted, TokenResponses) : OnToken(resp)
       \/ \E resp \in OutcomesOf(aborted, ManifestResponses) :
             OnManifest(resp)
       \/ \E resp \in OutcomesOf(aborted, ManifestResponses) :
             OnSpecific(resp)
       \/ \E resp \in OutcomesOf(aborted, ConfigResponses) : OnConfig(resp)

\* the packages of the invocations that are cancelled or time out
AbortPackages ==
    { p \in Packages :
         /\ p.RegistryBaseURL \in { Empty, RegistryURLGHCR }
         /\ p.Identifier \in { <<"nginx">>,
                                <<"test-namespace", "/", "test-repo">> } }

AbortNext ==
    \/ \E p \in AbortPackages, owner \in ServerNames :
          Call(p, owner) /\ UNCHANGED <<aborted, concVars, deployVars>>
    \/ Cancel
    \/ Expire
    \/ Complete

\* client.Do returns at the latest when the timeout of the client expires
AbortSpec == Init /\ [][AbortNext]_vars /\ WF_vars(Complete)

----------------------------------------------------------------------------
(* Two invocations side by side.  Everything ValidateOCI works on is local *)
(* to the call (the map of registries and the http.Client are built inside *)
(* it); only the logger of the process is shared.  The variables hold the  *)
(* locals of the invocation that runs, parked those of the other one.      *)

\* ValidateOCI run on its own: the code of Call as a function
RunCall(p, owner) ==
    LET base == DefaultRegistryBaseURL(p.RegistryBaseURL)
        ref  == parseImageReference(p.Identifier)
        api  == ResolveAPIBaseURL(base)
        o == IF ~Supported(base) THEN Return(ErrUnsupported(base))
             ELSE IF ref.err # Nil THEN
                 Return(<<"invalid OCI image reference", ": ">> \o ref.err)
             ELSE BeginFetch("manifest", api, ref.namespace, ref.repo,
                             p.Version)
    IN [pc |-> o.pc, ret |-> o.ret, requests |-> o.sent,
        stage |-> "manifest", owner |-> owner, api |-> api,
        ns |-> ref.namespace, rp |-> ref.repo, tag |-> p.Version,
        list |-> ZeroManifest, digest |-> Empty]

\* the run r ends its step as o says, engaged in the fetch st
Then(r, o, st) ==
    [r EXCEPT !.pc = o.pc, !.ret = o.ret, !.requests = @ \o o.sent,
              !.stage = IF o.pc = "done" THEN @ ELSE st]

\* the code of OnToken, OnManifest, OnSpecific and OnConfig as a function
RunStep(r, resp) ==
    CASE r.pc = "awaitToken" ->
           IF AuthTokenError(resp) # Nil THEN
               Then(r, Return(Wrap(r.stage,
                                   AuthFailed \o AuthTokenError(resp))),
                    r.stage)
           ELSE
               Then(r, [pc |-> Await(r.stage), ret |-> Nil,
                        sent |-> << FetchRequest(r.stage,
                            FetchURL(r.stage, r.api, r.ns, r.rp,
                                CASE r.stage = "manifest" -> r.tag
                                  [] r.stage = "specific" ->
                                        PlatformDigest(r.list)
                                  [] r.stage = "config" -> r.digest),
                            << <<"Bearer ">>
                               \o DecodeAuth(resp.body[1]).Token >>) >>],
                    r.stage)
      [] r.pc = "awaitManifest" ->
           LET st == ManifestStatus(resp.status, r.ns, r.rp, r.tag)
               m  == DecodeManifest(resp.body[1])
           IN
           IF resp.transport THEN
               Then(r, Return(<<"failed to fetch OCI manifest", ": ">>
                              \o NetError), r.stage)
           ELSE IF st.outcome = "error" THEN Then(r, Return(st.err), r.stage)
           ELSE IF st.outcome = "skip" THEN Then(r, Return(Nil), r.stage)
           ELSE IF ~resp.decodable THEN
               Then(r, Return(<<"failed to parse OCI manifest", ": ">>
                              \o JSONError), r.stage)
           ELSE IF Len(m.Manifests) > 0 THEN
               Then([r EXCEPT !.list = m],
                    BeginFetch("specific", r.api, r.ns, r.rp,
                               PlatformDigest(m)), "specific")
           ELSE
               Then([r EXCEPT !.digest = m.Config.Digest],
                    AfterDigest(m.Config.Digest, r.api, r.ns, r.rp, r.tag),
                    "config")
      [] r.pc = "awaitSpecific" ->
           IF SpecificManifestError(resp) # Nil THEN
               Then(r, Return(Wrap("specific", SpecificManifestError(resp))),
                    r.stage)
           ELSE
               LET m == DecodeManifest(resp.body[1]) IN
               Then([r EXCEPT !.digest = m.Config.Digest],
                    AfterDigest(m.Config.Digest, r.api, r.ns, r.rp, r.tag),
                    "config")
      [] r.pc = "awaitConfig" ->
           IF ImageConfigError(resp) # Nil THEN
               Then(r, Return(Wrap("config", ImageConfigError(resp))),
                    r.stage)
           ELSE
               Then(r, Return(VerifyOwnership(
                                 DecodeConfig(resp.body[1]).Config.Labels,
                                 r.owner, r.ns, r.rp, r.tag)), r.stage)
      [] OTHER -> r

RECURSIVE RunFrom(_, _, _)
RunFrom(r, ans, i) ==
    IF i > Len(ans) THEN r ELSE RunFrom(RunStep(r, ans[i]), ans, i + 1)

\* the invocation of (p, owner) run alone and given the answers ans
Alone(p, owner, ans) == RunFrom(RunCall(p, owner), ans, 1)

\* the locals of the invocation that runs
Locals ==
    [call |-> call, pc |-> pc, stage |-> stage, pkg |-> pkg,
     apiBaseURL |-> apiBaseURL, namespace |-> namespace, repo |-> repo,
     tag |-> tag, manifest |-> manifest,
     specificManifest |-> specificManifest, configDigest |-> configDigest,
     config |-> config, requests |-> requests, replies |-> replies,
     labelChecked |-> labelChecked, ret |-> ret, received |-> received]

\* Switch with the parsed reference in variables of the package
SwitchSharedReference ==
    /\ parked' = Locals
    /\ call' = parked.call
    /\ pc' = parked.pc
    /\ stage' = parked.stage
    /\ pkg' = parked.pkg
    /\ apiBaseURL' = parked.apiBaseURL
    /\ tag' = parked.tag
    /\ manifest' = parked.manifest
    /\ specificManifest' = parked.specificManifest
    /\ configDigest' = parked.configDigest
    /\ config' = parked.config
    /\ requests' = parked.requests
    /\ replies' = parked.replies
    /\ labelChecked' = parked.labelChecked
    /\ ret' = parked.ret
    /\ received' = parked.received
    /\ UNCHANGED <<namespace, repo, logs, aborted, deployVars>>

\* the scheduler goes from one invocation to the other: each has its own
\* locals, the log of the process is the same
Switch ==
    /\ parked' = Locals
    /\ call' = parked.call
    /\ pc' = parked.pc
    /\ stage' = parked.stage
    /\ pkg' = parked.pkg
    /\ apiBaseURL' = parked.apiBaseURL
    /\ namespace' = parked.namespace
    /\ repo' = parked.repo
    /\ tag' = parked.tag
    /\ manifest' = parked.manifest
    /\ specificManifest' = parked.specificManifest
    /\ configDigest' = parked.configDigest
    /\ config' = parked.config
    /\ requests' = parked.requests
    /\ replies' = parked.replies
    /\ labelChecked' = parked.labelChecked
    /\ ret' = parked.ret
    /\ received' = parked.received
    /\ UNCHANGED <<logs, aborted, deployVars>>

\* the invocation that runs keeps the answer it received
Received(resp) ==
    /\ received' = Append(received, resp)
    /\ UNCHANGED <<parked, aborted, deployVars>>

Ok(b) ==
    [transport |-> FALSE, status |-> 200, decodable |-> TRUE, body |-> <<b>>]

ConcPackages ==
    { [RegistryBaseURL |-> Empty, Identifier |-> <<"nginx">>,
       Version |-> <<"latest">>],
      [RegistryBaseURL |-> RegistryURLGHCR,
       Identifier |-> <<"test-namespace", "/", "test-repo">>,
       Version |-> <<"latest">>],
      [RegistryBaseURL |-> RegistryURLGHCR,
       Identifier |-> <<"too", "/", "many", "/", "slashes">>,
       Version |-> <<"latest">>] }

ConcTokenResponses ==
    { TransportError, Ok([token |-> << <<"tok1">> >>]) }

ConcManifestResponses ==
    { [transport |-> FALSE, status |-> 404, decodable |-> FALSE,
       body |-> <<>>],
      Ok([manifests |-> <<>>,
          config |-> << [digest |-> << <<"sha256:abc123">> >>] >>]),
      Ok([manifests |-> << << [digest |-> <<"sha256:abc123">>] >> >>,
          config |-> <<>>]) }

ConcConfigResponses ==
    { Ok([config |-> << [Labels |-> << [k \in { OwnerLabel } |->
                                          <<"com.example/test-server">>] >>]
                     >>]),
      Ok([config |-> <<>>]) }

ConcNext ==
    \/ \E p \in ConcPackages, owner \in ServerNames :
          Call(p, owner) /\ UNCHANGED <<aborted, concVars, deployVars>>
    \/ \E resp \in ConcTokenResponses : OnToken(resp) /\ Received(resp)
    \/ \E resp \in ConcManifestResponses :
          OnManifest(resp) /\ Received(resp)
    \/ \E resp \in ConcManifestResponses :
          OnSpecific(resp) /\ Received(resp)
    \/ \E resp \in ConcConfigResponses : OnConfig(resp) /\ Received(resp)
    \/ Switch

ConcSpec == Init /\ [][ConcNext]_vars

----------------------------------------------------------------------------
(* DeployLoggingStack (deploy/pkg/k8s/logging.go): the namespace, the       *)
(* service account, the cluster role and its binding, the config map, the  *)
(* daemon set and the service of the OTel collector, each registered with  *)
(* pulumi.Provider(cluster.Provider)                                       *)

\* a nil *providers.ProviderInfo
NilCluster == <<>>

Clusters ==
    { NilCluster,
      << [Name |-> "test-cluster", Provider |-> "nil"] >>,
      << [Name |-> "prod-cluster", Provider |-> "k8s"] >> }

Environments == { Empty, <<"test">>, <<"production">>, <<"staging">> }

\* the resources in the order the function registers them
ResourceKinds ==
    << [kind |-> "Namespace", name |-> "logging"],
       [kind |-> "ServiceAccount", name |-> "otel-collector"],
       [kind |-> "ClusterRole", name |-> "otel-collector"],
       [kind |-> "ClusterRoleBinding", name |-> "otel-collector"],
       [kind |-> "ConfigMap", name |-> "otel-collector-config"],
       [kind |-> "DaemonSet", name |-> "otel-collector"],
       [kind |-> "Service", name |-> "otel-collector"] >>

\* the i-th resource as registered: the config map carries the environment
Resource(i, provider, env) ==
    [kind |-> ResourceKinds[i].kind,
     name |-> ResourceKinds[i].name,
     provider |-> provider,
     clusterName |-> IF ResourceKinds[i].kind = "ConfigMap"
                     THEN <<"mcp-registry-">> \o env ELSE Empty]

\* DeployLoggingStack(ctx, c, env) is called
Deploy(c, env) ==
    /\ dpc = "idle"
    /\ dpc' = "running"
    /\ cluster' = c
    /\ environment' = env
    /\ UNCHANGED <<resources, deployErr, ociVars, aborted, concVars>>

\* the next New<Resource>(ctx, ..., pulumi.Provider(cluster.Provider)):
\* the argument cluster.Provider is evaluated first, which panics on a nil
\* cluster; then the registration succeeds (ok) or returns an error, which
\* the function returns
Register(ok) ==
    /\ dpc = "running"
    /\ IF cluster = NilCluster THEN
           /\ dpc' = "panicked"
           /\ UNCHANGED <<resources, deployErr>>
       ELSE IF ~ok THEN
           /\ dpc' = "returned"
           /\ deployErr' = <<"<resource error>">>
           /\ UNCHANGED resources
       ELSE
           /\ resources' = Append(resources,
                 Resource(Len(resources) + 1, cluster[1].Provider,
                          environment))
           /\ dpc' = IF Len(resources) + 1 = Len(ResourceKinds)
                     THEN "returned" ELSE "running"
           /\ UNCHANGED deployErr
    /\ UNCHANGED <<cluster, environment, ociVars, aborted, concVars>>

DeployNext ==
    \/ \E c \in Clusters, env \in Environments : Deploy(c, env)
    \/ \E ok \in BOOLEAN : Register(ok)

DeploySpec == Init /\ [][DeployNext]_vars

----------------------------------------------------------------------------
(* Reading the logs: answer i is the answer to request i *)

Answered(i) == i \in 1..Len(requests) /\ i <= Len(replies)

\* answer i has status 200 and a body that decodes
Decoded(i) ==
    /\ ~replies[i].transport
    /\ replies[i].status = 200
    /\ replies[i].decodable

Count(kind) ==
    Cardinality({ i \in 1..Len(requests) : requests[i].kind = kind })

\* the invocation returned right after answer i
ReturnedAfter(i) == pc = "done" /\ Len(requests) = i

\* the last request was answered with a config that decoded
ConfigDecoded ==
    /\ pc = "done"
    /\ Len(requests) > 0
    /\ Answered(Len(requests))
    /\ requests[Len(requests)].kind = "config"
    /\ Decoded(Len(requests))

Labels == config.Config.Labels

----------------------------------------------------------------------------
(* Ownership verifier *)

\* C1: once the manifest and the config blob are fetched and decoded, the
\* result depends on the ownership label alone: absent, the error says
\* "missing required annotation" and carries the LABEL line with the claimed
\* owner; present and different, the error says "ownership validation
\* failed" and names the expected and the actual value; present and equal,
\* the result is success.
C1_ResultDecidedByOwnerLabel ==
    ConfigDecoded =>
        /\ OwnerLabel \notin DOMAIN Labels =>
              /\ Contains(ret, <<"missing required annotation">>)
              /\ Contains(ret,
                    <<"LABEL io.modelcontextprotocol.server.name=\"">>
                    \o call.serverName \o <<"\"">>)
        /\ (OwnerLabel \in DOMAIN Labels
               /\ Labels[OwnerLabel] # call.serverName) =>
              /\ Contains(ret, <<"ownership validation failed">>)
              /\ Contains(ret, call.serverName \o <<"', got '">>
                                 \o Labels[OwnerLabel] \o <<"'">>)
        /\ (OwnerLabel \in DOMAIN Labels
               /\ Labels[OwnerLabel] = call.serverName) =>
              ret = Nil

\* an image without the ownership label whose other label holds the
\* claimed owner
C1_Witness ==
    /\ ConfigDecoded
    /\ OwnerLabel \notin DOMAIN Labels
    /\ OtherLabel \in DOMAIN Labels
    /\ Labels[OtherLabel] = call.serverName

\* C2: success is returned only when the ownership label was fetched and
\* equals the claimed owner, or when the top-level manifest request was
\* answered 429; a failed answer anywhere else is never turned into success.
C2_SuccessOnlyByLabelOrRateLimit ==
    (pc = "done" /\ ret = Nil) =>
        /\ \/ /\ ConfigDecoded
              /\ OwnerLabel \in DOMAIN Labels
              /\ Labels[OwnerLabel] = call.serverName
           \/ \E i \in 1..Len(replies) :
                 /\ requests[i].kind = "manifest"
                 /\ ~replies[i].transport
                 /\ replies[i].status = 429
        /\ \A i \in 1..Len(replies) :
              ~Decoded(i) =>
                 /\ requests[i].kind = "manifest"
                 /\ ~replies[i].transport
                 /\ replies[i].status = 429

\* success on the Docker Hub origin through a manifest list
C2_Witness ==
    /\ pc = "done"
    /\ ret = Nil
    /\ ConfigDecoded
    /\ Count("token") = 3
    /\ Count("specific") = 1

----------------------------------------------------------------------------
(* Status of the top-level manifest answer *)

\* C3: a 429 answer to the top-level manifest request makes ValidateOCI
\* return no error at once: no further request is sent and no label is
\* compared, whatever the claimed owner.
C3_RateLimitSkipsValidation ==
    \A i \in 1..Len(replies) :
        (requests[i].kind = "manifest" /\ ~replies[i].transport
            /\ replies[i].status = 429) =>
           /\ ReturnedAfter(i)
           /\ ret = Nil
           /\ ~labelChecked
           /\ Count("specific") = 0
           /\ Count("config") = 0

\* rate limited on an anonymous registry, the body carrying a manifest
C3_Witness ==
    /\ Len(replies) = 1
    /\ requests[1].kind = "manifest"
    /\ replies[1].status = 429
    /\ replies[1].decodable
    /\ call.serverName = <<"com.wrong/server">>

\* C4: a 404 or a 401 answer to the top-level manifest request gives the
\* same error, which says "not found" and carries namespace/repository:tag
\* and the status; no further request is sent.
C4_NotFoundOn404And401 ==
    \A i \in 1..Len(replies) :
        (requests[i].kind = "manifest" /\ ~replies[i].transport
            /\ replies[i].status \in { 404, 401 }) =>
           /\ ReturnedAfter(i)
           /\ ret = <<"OCI image '">>
                    \o namespace \o <<"/">> \o repo \o <<":">> \o tag
                    \o <<"' ", "not found", " (status: ">>
                    \o Itoa(replies[i].status) \o <<")">>
           /\ Contains(ret, <<"not found">>)

\* a 401 answer after a Docker Hub token was obtained
C4_Witness ==
    /\ Len(replies) = 2
    /\ requests[1].kind = "token"
    /\ requests[2].kind = "manifest"
    /\ replies[2].status = 401
    /\ pc = "done"

\* C5: any status of the top-level manifest answer other than 200, 401, 404
\* and 429 gives "failed to fetch OCI manifest (status: N)" with that
\* status; the body is not decoded and nothing more is fetched.
C5_OtherStatusIsFetchFailure ==
    \A i \in 1..Len(replies) :
        (requests[i].kind = "manifest" /\ ~replies[i].transport
            /\ replies[i].status \notin { 200, 401, 404, 429 }) =>
           /\ ReturnedAfter(i)
           /\ ret = <<"failed to fetch OCI manifest", " (status: ">>
                    \o Itoa(replies[i].status) \o <<")">>
           /\ configDigest = Empty
           /\ ~labelChecked

\* a 204 answer whose body is a well-formed manifest
C5_Witness ==
    /\ Len(replies) = 1
    /\ requests[1].kind = "manifest"
    /\ replies[1].status = 204
    /\ replies[1].decodable
    /\ pc = "done"

\* C6: a 200 answer whose body does not decode gives a parse error of its
\* own, "failed to parse OCI manifest" for the top-level manifest and
\* "failed to parse specific manifest" for the platform-specific one, and
\* no config fetch follows.
C6_UndecodableManifestIsParseError ==
    \A i \in 1..Len(replies) :
        (~replies[i].transport /\ replies[i].status = 200
            /\ ~replies[i].decodable) =>
           /\ requests[i].kind = "manifest" =>
                 /\ ReturnedAfter(i)
                 /\ Contains(ret, <<"failed to parse OCI manifest">>)
                 /\ ~Contains(ret, <<"failed to fetch OCI manifest">>)
                 /\ ~Contains(ret, <<"not found">>)
                 /\ Count("config") = 0
           /\ requests[i].kind = "specific" =>
                 /\ ReturnedAfter(i)
                 /\ Contains(ret, <<"failed to parse specific manifest">>)
                 /\ ~Contains(ret, <<"failed to fetch specific manifest">>)
                 /\ ~Contains(ret, <<"specific manifest not found">>)
                 /\ Count("config") = 0

\* an undecodable platform-specific manifest
C6_Witness ==
    /\ pc = "done"
    /\ Len(replies) = 2
    /\ requests[2].kind = "specific"
    /\ replies[2].status = 200
    /\ ~replies[2].decodable

----------------------------------------------------------------------------
(* Manifest lists *)

\* answer i is a decoded top-level manifest with platform entries
TopList(i) ==
    /\ Answered(i)
    /\ requests[i].kind = "manifest"
    /\ Decoded(i)
    /\ replies[i].entries > 0

\* answer i is a decoded top-level manifest without platform entries
TopConcrete(i) ==
    /\ Answered(i)
    /\ requests[i].kind = "manifest"
    /\ Decoded(i)
    /\ replies[i].entries = 0

\* the decoded manifests are still in scope
InFlight == pc \in { "awaitToken", "awaitSpecific", "awaitConfig" }

\* the platform-specific manifest is fetched for the first entry, and for
\* no other entry
C7_FirstEntryOnly ==
    /\ Count("specific") <= 1
    /\ (InFlight /\ Len(manifest.Manifests) > 0) =>
          \A i \in 1..Len(requests) :
              requests[i].kind = "specific" =>
                 requests[i].url = ManifestURL(apiBaseURL, namespace, repo,
                                       manifest.Manifests[1].Digest)

\* the config digest is the one of the fetched platform-specific manifest
\* for a manifest list, and the one of the top-level manifest otherwise
C7_ConfigDigestSource ==
    /\ \A i \in 1..Len(requests) :
          (TopList(i) /\ Count("config") > 0) =>
             /\ requests[i + 1].kind = "specific" \/ requests[i + 1].kind = "token"
             /\ Count("specific") = 1
    /\ (pc = "awaitConfig" \/ (pc = "awaitToken" /\ stage = "config")) =>
          configDigest = IF Len(manifest.Manifests) > 0
                         THEN specificManifest.Config.Digest
                         ELSE manifest.Config.Digest
    /\ pc = "awaitConfig" =>
          requests[Len(requests)].url =
              ConfigURL(apiBaseURL, namespace, repo,
                  IF Len(manifest.Manifests) > 0
                  THEN specificManifest.Config.Digest
                  ELSE manifest.Config.Digest)

\* without platform entries there is no second manifest fetch
C7_NoFetchForConcrete ==
    \A i \in 1..Len(requests) : TopConcrete(i) => Count("specific") = 0

\* C7 as claimed: a top-level manifest with platform entries is always
\* followed by exactly one more manifest fetch, for the first entry only,
\* and the config digest is the one of the manifest so fetched; without
\* entries the top-level config digest is used and nothing more is fetched.
C7_ExactlyOneMoreFetch ==
    /\ \A i \in 1..Len(requests) :
          (TopList(i) /\ pc = "done") => Count("specific") = 1
    /\ C7_FirstEntryOnly
    /\ C7_ConfigDigestSource
    /\ C7_NoFetchForConcrete

\* C7 as amended: a top-level manifest with platform entries is never used
\* as terminal.  At most one more manifest fetch is issued, for the first
\* entry only; it is issued unless creating its request or the Docker Hub
\* token request that guards it fails, and then ValidateOCI returns that
\* error without a config fetch.  The config digest is the one of the
\* manifest so fetched; without entries the top-level config digest is used
\* and nothing more is fetched.
C7_ListNeverTerminal ==
    /\ \A i \in 1..Len(requests) :
          (TopList(i) /\ pc = "done" /\ Count("specific") = 0) =>
             /\ Count("config") = 0
             /\ Contains(ret, <<"failed to get specific manifest">>)
             /\ \/ Contains(ret, <<"failed to create specific manifest request">>)
                \/ Contains(ret, <<"failed to authenticate with Docker registry">>)
    /\ C7_FirstEntryOnly
    /\ C7_ConfigDigestSource
    /\ C7_NoFetchForConcrete

\* a list of two different entries whose top-level manifest has a config
\* digest of its own, different from the one of the fetched manifest
C7_Witness ==
    /\ pc = "awaitConfig"
    /\ Len(manifest.Manifests) = 2
    /\ manifest.Manifests[1].Digest # manifest.Manifests[2].Digest
    /\ manifest.Config.Digest # Empty
    /\ manifest.Config.Digest # specificManifest.Config.Digest

\* C8: an empty resolved config digest, from the top-level manifest or from
\* the platform-specific one, gives "unable to determine image config
\* digest" with namespace/repository:tag, and no config blob request.
C8_EmptyDigestIsError ==
    \A i \in 1..Len(replies) :
        (/\ Decoded(i)
         /\ \/ TopConcrete(i)
            \/ requests[i].kind = "specific"
         /\ configDigest = Empty) =>
           /\ ReturnedAfter(i)
           /\ ret = <<"unable to determine image config digest", " for '">>
                    \o namespace \o <<"/">> \o repo \o <<":">> \o tag
                    \o <<"'">>
           /\ Count("config") = 0

\* a platform-specific manifest without config digest
C8_Witness ==
    /\ pc = "done"
    /\ Len(replies) = 2
    /\ requests[2].kind = "specific"
    /\ Decoded(2)
    /\ configDigest = Empty

----------------------------------------------------------------------------
(* Config fetch *)

\* C9: a config answer with a status other than 200 gives "image config not
\* found" with the status, and a 200 answer that does not decode gives
\* "failed to parse image config"; either way ValidateOCI returns an error
\* and no label is compared.
C9_ConfigFetchErrors ==
    \A i \in 1..Len(replies) :
        (requests[i].kind = "config" /\ ~replies[i].transport) =>
           /\ replies[i].status # 200 =>
                 /\ ReturnedAfter(i)
                 /\ Contains(ret, <<"image config not found", " (status: ">>
                                  \o Itoa(replies[i].status) \o <<")">>)
                 /\ ~labelChecked
           /\ (replies[i].status = 200 /\ ~replies[i].decodable) =>
                 /\ ReturnedAfter(i)
                 /\ Contains(ret, <<"failed to parse image config">>)
                 /\ ~labelChecked

\* a 204 config answer whose body carries the claimed owner
C9_Witness ==
    /\ pc = "done"
    /\ Len(replies) > 0
    /\ requests[Len(replies)].kind = "config"
    /\ replies[Len(replies)].status = 204
    /\ replies[Len(replies)].decodable

----------------------------------------------------------------------------
(* Registry resolution *)

\* base URLs that look like a supported registry and are none
Lookalikes ==
    { <<"https://", "docker.io", "/v2">>,
      <<"https://", "myregistry.com", "/v2">>,
      <<"https://", "docker.mycompany.com">>,
      <<"https://", "localhost:", "5000">>,
      <<"http://localhost">> }

\* C10: a base URL that is no key of the provider table and matches no
\* fallback rule gives "unsupported OCI registry" with the rejected URL and
\* a short list of example providers, before any request; so do the URLs
\* that only look like a known registry.
C10_UnsupportedRegistry ==
    (/\ pc # "idle"
     /\ \/ /\ pkg.RegistryBaseURL \notin SupportedKeys
           /\ ~FallbackMatches(pkg.RegistryBaseURL)
        \/ call.pkg.RegistryBaseURL \in Lookalikes) =>
       /\ pc = "done"
       /\ Contains(ret, <<"unsupported OCI registry">>)
       /\ Contains(ret, <<": '">> \o call.pkg.RegistryBaseURL
                        \o <<"'. Supported registries: ">>)
       /\ Contains(ret, <<"docker.io">> \o <<", ">> \o <<"ghcr.io">>)
       /\ Len(supportedList) < Cardinality(SupportedKeys)
       /\ requests = <<>>

\* a known host with a path added
C10_Witness ==
    /\ pc = "done"
    /\ call.pkg.RegistryBaseURL = <<"https://", "docker.io", "/v2">>

----------------------------------------------------------------------------
(* Resolution and parsing before the first request *)

\* the number of separators of an identifier
SlashCount(identifier) ==
    Cardinality({ i \in 1..Len(identifier) : identifier[i] = "/" })

\* the descriptor alone says the invocation is rejected before any request
Rejected(p) ==
    \/ ~Supported(IF p.RegistryBaseURL = Empty
                  THEN <<"https://", "docker.io">> ELSE p.RegistryBaseURL)
    \/ SlashCount(p.Identifier) >= 2

RejectionError ==
    \/ Contains(ret, <<"unsupported OCI registry">>)
    \/ Contains(ret, <<"invalid OCI image reference">>)

FetchKinds == { "manifest", "specific", "config" }

DockerAliases ==
    { Empty, <<"https://", "docker.io">>, <<"https://", "hub.docker.com">> }

DockerOrigin == <<"https://", "registry-1.docker.io">>

\* what an invocation on https://docker.io shows of itself
DockerIoBehaviour ==
    /\ pkg.RegistryBaseURL = <<"https://", "docker.io">>
    /\ apiBaseURL = DockerOrigin
    /\ ~Contains(ret, <<"unsupported OCI registry">>)
    /\ requests # <<>> =>
          /\ requests[1].kind = "token"
          /\ HasPrefix(requests[1].url, <<"https://", "auth.docker.io">>)
    /\ \A i \in 1..Len(requests) :
          requests[i].kind \in FetchKinds =>
             /\ HasPrefix(requests[i].url, DockerOrigin \o <<"/v2/">>)
             /\ requests[i].Authorization # <<>>
             /\ requests[i - 1].kind = "token"

\* C12: an empty registry base URL behaves as https://docker.io does: the
\* descriptor the code goes on with has the base URL https://docker.io, the
\* API origin is that of Docker Hub, the first request is the token request
\* and every fetch goes to the Docker Hub origin behind a token request of
\* its own.
C12_EmptyBaseURLIsDockerIo ==
    (/\ pc # "idle"
     /\ call.pkg.RegistryBaseURL \in { Empty, <<"https://", "docker.io">> })
       => /\ DockerIoBehaviour
          /\ pkg = [call.pkg EXCEPT
                       !.RegistryBaseURL = <<"https://", "docker.io">>]

\* an invocation with no base URL that ran to the ownership check and passed
C12_Witness ==
    /\ pc = "done"
    /\ call.pkg.RegistryBaseURL = Empty
    /\ Count("config") = 1
    /\ labelChecked
    /\ ret = Nil

\* C13: a supported base URL has one API origin: a key of the table has the
\* value of its one entry, any other supported URL is its own origin; the
\* origin differs from the input for https://docker.io,
\* https://hub.docker.com and the empty URL only, and is then
\* https://registry-1.docker.io; every fetch goes to that origin.
C13_OneOriginPerBaseURL ==
    /\ Cardinality(SupportedKeys) = Cardinality(supportedRegistries)
    /\ \A e \in supportedRegistries :
          e[2] = IF e[1] \in DockerAliases THEN DockerOrigin ELSE e[1]
    /\ (pc # "idle" /\ ~Contains(ret, <<"unsupported OCI registry">>)) =>
          apiBaseURL = IF call.pkg.RegistryBaseURL \in DockerAliases
                       THEN DockerOrigin ELSE call.pkg.RegistryBaseURL
    /\ \A i \in 1..Len(requests) :
          requests[i].kind \in FetchKinds =>
             HasPrefix(requests[i].url, apiBaseURL \o <<"/v2/">>)

\* a base URL the table does not hold and a fallback rule accepts
C13_Witness ==
    /\ pc = "awaitManifest"
    /\ call.pkg.RegistryBaseURL
          = <<"https://", "us-central1", "-docker.pkg.dev">>
    /\ apiBaseURL = call.pkg.RegistryBaseURL

C15_ReferenceComponentsNonEmpty ==
    requests # <<>> => namespace # Empty /\ repo # Empty

\* C16: the empty identifier is parsed to ("library", "") with no error and
\* the invocation goes on to the manifest fetch of the empty repository
\* (behind its token request on Docker Hub): it never fails with an invalid
\* reference, and it fails before any request only when the manifest
\* request cannot be created.
C16_EmptyIdentifierAccepted ==
    (/\ pc # "idle"
     /\ call.pkg.Identifier = Empty
     /\ ~Contains(ret, <<"unsupported OCI registry">>)) =>
       LET url == apiBaseURL
                     \o <<"/v2/", "library", "/", "/manifests/">> \o tag
       IN
       /\ namespace = <<"library">>
       /\ repo = Empty
       /\ ~Contains(ret, <<"invalid OCI image reference">>)
       /\ ~Contains(ret, <<"invalid image reference">>)
       /\ requests = <<>> =>
             /\ ~ValidURL(url)
             /\ Contains(ret, <<"failed to create manifest request">>)
       /\ (requests # <<>> /\ apiBaseURL # DockerOrigin) =>
             /\ requests[1].kind = "manifest"
             /\ requests[1].url = url
       /\ (requests # <<>> /\ apiBaseURL = DockerOrigin) =>
             /\ requests[1].kind = "token"
             /\ (Answered(1) /\ Decoded(1)) =>
                   /\ requests[2].kind = "manifest"
                   /\ requests[2].url = url

\* the manifest of the empty repository asked of an anonymous registry
C16_Witness ==
    /\ pc = "awaitManifest"
    /\ call.pkg.Identifier = Empty
    /\ requests[1].url = <<"https://", "ghcr.io", "/v2/", "library", "/",
                           "/manifests/", "latest">>

----------------------------------------------------------------------------
(* Authentication *)

IsFetch(i) == requests[i].kind \in FetchKinds

\* C17: token requests are issued for the Docker Hub origin and for no
\* other: with the base URL docker.io, hub.docker.com or empty the first
\* request is a token request and every fetch follows a token request and
\* carries an Authorization header; with any other supported base URL no
\* token request is issued and no fetch carries an Authorization header.
C17_TokenOnlyForDockerHub ==
    /\ (requests # <<>> /\ call.pkg.RegistryBaseURL \in DockerAliases) =>
          /\ apiBaseURL = DockerOrigin
          /\ requests[1].kind = "token"
          /\ \A i \in 1..Len(requests) :
                IsFetch(i) => /\ requests[i - 1].kind = "token"
                              /\ requests[i].Authorization # <<>>
    /\ (requests # <<>> /\ call.pkg.RegistryBaseURL \notin DockerAliases) =>
          /\ apiBaseURL # DockerOrigin
          /\ Count("token") = 0
          /\ \A i \in 1..Len(requests) : requests[i].Authorization = <<>>

\* three anonymous fetches of a registry other than Docker Hub
C17_Witness ==
    /\ pc = "done"
    /\ call.pkg.RegistryBaseURL = <<"https://", "ghcr.io">>
    /\ Len(requests) = 3
    /\ Count("token") = 0

\* the fetches sent and the one a failed or pending token request guards
FetchesAttempted ==
    Cardinality({ i \in 1..Len(requests) : IsFetch(i) })
       + (IF requests # <<>> /\ ~IsFetch(Len(requests)) THEN 1 ELSE 0)

\* C18: on the Docker Hub origin every fetch has a token request of its
\* own: the request right before a fetch is a token request that was
\* answered with a token, the request right after a token request is the
\* fetch it guards, and there are as many token requests as fetches
\* attempted.
C18_FreshTokenPerFetch ==
    apiBaseURL = DockerOrigin =>
       /\ \A i \in 1..Len(requests) :
             IsFetch(i) => /\ i > 1
                           /\ requests[i - 1].kind = "token"
                           /\ Answered(i - 1)
                           /\ Decoded(i - 1)
       /\ \A i \in 1..Len(requests) :
             (requests[i].kind = "token" /\ i < Len(requests))
                => IsFetch(i + 1)
       /\ Count("token") = FetchesAttempted
       /\ (pc = "done" /\ requests # <<>> /\ IsFetch(Len(requests))) =>
             2 * Count("token") = Len(requests)

\* three fetches on Docker Hub, each behind its token request
C18_Witness ==
    /\ pc = "done"
    /\ apiBaseURL = DockerOrigin
    /\ Count("token") = 3
    /\ Count("specific") = 1
    /\ Count("config") = 1

\* C19, as stated: an invocation makes at most five outbound calls.
C19_AtMostFiveCalls == Len(requests) <= 5

\* C19, amended: an invocation makes at most six outbound calls: at most
\* one manifest, one platform manifest and one config fetch, each behind a
\* token request of its own on Docker Hub, hence at most three calls on any
\* other registry; more than five are made only for a manifest list on
\* Docker Hub.
C19_AtMostSixCalls ==
    /\ Len(requests) <= 6
    /\ Count("manifest") <= 1
    /\ Count("specific") <= 1
    /\ Count("config") <= 1
    /\ Count("token") <= 3
    /\ apiBaseURL # DockerOrigin => Len(requests) <= 3
    /\ Len(requests) > 5 =>
          /\ apiBaseURL = DockerOrigin
          /\ Count("specific") = 1

\* the sixth call: the config fetch of a manifest list on Docker Hub
C19_Witness ==
    /\ pc = "awaitConfig"
    /\ Len(requests) = 6
    /\ requests[1].kind = "token"
    /\ requests[4].kind = "specific"

\* answer i tells the token request failed
TokenFailed(i) ==
    /\ requests[i].kind = "token"
    /\ Answered(i)
    /\ ~Decoded(i)

AuthMessages(i) ==
    { <<"failed to request auth token">>,
      <<"auth request failed with status ">> \o Itoa(replies[i].status),
      <<"failed to parse auth response">> }

\* C20: when a token request fails, the fetch it guards is not sent and the
\* invocation returns an error with "failed to authenticate with Docker
\* registry" and one of three messages: one for a transport error, one with
\* the status for a status other than 200, one for a body that does not
\* decode.
C20_TokenFailureStopsFetch ==
    \A i \in 1..Len(requests) :
       TokenFailed(i) =>
          /\ ReturnedAfter(i)
          /\ Contains(ret,
                <<"failed to authenticate with Docker registry">>)
          /\ Cardinality({ m \in AuthMessages(i) : Contains(ret, m) }) = 1
          /\ replies[i].transport =>
                Contains(ret, <<"failed to request auth token">>)
          /\ (~replies[i].transport /\ replies[i].status # 200) =>
                Contains(ret, <<"auth request failed with status ">>
                              \o Itoa(replies[i].status))
          /\ (~replies[i].transport /\ replies[i].status = 200) =>
                Contains(ret, <<"failed to parse auth response">>)

\* the token request before the platform manifest is answered with 500
C20_Witness ==
    /\ pc = "done"
    /\ Len(requests) = 3
    /\ requests[3].kind = "token"
    /\ Answered(3)
    /\ replies[3].status = 500
    /\ Contains(ret, <<"failed to get specific manifest">>)

\* the scope of the parsed reference of the invocation
PullScope ==
    <<"repository:">>
       \o (IF SlashCount(call.pkg.Identifier) = 0
           THEN <<"library", "/">> \o call.pkg.Identifier
           ELSE call.pkg.Identifier)
       \o <<":pull">>

\* C21: on the Docker Hub origin every manifest and blob request carries
\* "Bearer " followed by the token the token request right before it was
\* answered with, and that token request asked auth.docker.io for the scope
\* repository:<namespace>/<repository>:pull of the parsed reference; no
\* request to another origin carries an Authorization header.
C21_BearerTokenOfOwnRequest ==
    /\ \A i \in 1..Len(requests) :
          (IsFetch(i) /\ apiBaseURL = DockerOrigin) =>
             /\ requests[i - 1].kind = "token"
             /\ requests[i - 1].url =
                   <<"https://", "auth.docker.io",
                     "/token?service=registry.docker.io", "&scope=">>
                      \o PullScope
             /\ requests[i].Authorization
                   = << <<"Bearer ">> \o replies[i - 1].token >>
    /\ \A i \in 1..Len(requests) :
          requests[i].Authorization # <<>> =>
             /\ IsFetch(i)
             /\ HasPrefix(requests[i].url, DockerOrigin \o <<"/v2/">>)

\* a one-segment identifier on Docker Hub fetched with the token served
C21_Witness ==
    /\ pc = "awaitManifest"
    /\ call.pkg.Identifier = <<"nginx">>
    /\ Len(requests) = 2
    /\ requests[1].kind = "token"
    /\ replies[1].token = <<"tok1">>
    /\ requests[2].Authorization = << <<"Bearer ", "tok1">> >>

----------------------------------------------------------------------------
(* Order of the stages, retries, recursion *)

\* the last fetch sent before request i (0 when there is none)
PrevFetch(i) ==
    LET before == { j \in 1..(i - 1) : IsFetch(j) } IN
    IF before = {} THEN 0
    ELSE CHOOSE j \in before : \A k \in before : k <= j

C25_MultiSegmentAccepted ==
    (pc # "idle" /\ call.pkg \in MultiSegmentPackages) =>
       /\ ~Contains(ret, <<"invalid OCI image reference">>)
       /\ requests # <<>>

\* C26: the stages run in a fixed order, each after the one before it
\* succeeded: an unsupported base URL is reported whatever the identifier; a
\* request is sent only for a supported registry and a parsed reference; the
\* manifest by tag is the first fetch, the manifest by digest follows only a
\* manifest list answered with 200, the config blob is requested last and
\* only after a manifest answered with 200 that gave a non-empty config
\* digest, and the label is looked up only after the config answered 200.
C26_StageOrder ==
    /\ (/\ pc # "idle"
        /\ call.pkg.RegistryBaseURL = <<"https://", "nowhere.example">>) =>
          /\ Contains(ret, <<"unsupported OCI registry">>)
          /\ ~Contains(ret, <<"invalid OCI image reference">>)
    /\ requests # <<>> => ~Rejected(call.pkg)
    /\ \A i \in 1..Len(requests) :
          LET j == PrevFetch(i) IN
          /\ requests[i].kind = "manifest" => j = 0
          /\ requests[i].kind = "specific" =>
                /\ j > 0
                /\ requests[j].kind = "manifest"
                /\ Answered(j) /\ Decoded(j)
                /\ replies[j].entries > 0
          /\ requests[i].kind = "config" =>
                /\ j > 0
                /\ requests[j].kind \in { "manifest", "specific" }
                /\ Answered(j) /\ Decoded(j)
                /\ requests[j].kind = "manifest" => replies[j].entries = 0
                /\ configDigest # Empty
                /\ requests[i].url = apiBaseURL \o <<"/v2/">> \o namespace
                      \o <<"/">> \o repo \o <<"/blobs/">> \o configDigest
    /\ labelChecked => ConfigDecoded

\* an unsupported base URL with an identifier of three segments
C26_Witness ==
    /\ pc = "done"
    /\ call.pkg.RegistryBaseURL = <<"https://", "nowhere.example">>
    /\ call.pkg.Identifier = <<"too", "/", "many", "/", "slashes">>
    /\ Contains(ret, <<"unsupported OCI registry">>)

\* answer i is a platform manifest that is itself a manifest list
NestedList(i) ==
    /\ requests[i].kind = "specific"
    /\ Answered(i)
    /\ Decoded(i)
    /\ replies[i].entries > 0

\* C27: the entries of a platform manifest that is itself a manifest list
\* are not followed: with no config digest the invocation returns "unable
\* to determine image config digest", with one it goes on to the config
\* blob; there are at most two manifest fetches and one config fetch, and
\* the invocation has returned once every request it sent is answered.
C27_NoRecursion ==
    /\ Count("manifest") + Count("specific") <= 2
    /\ Count("config") <= 1
    /\ \A i \in 1..Len(requests) :
          NestedList(i) =>
             /\ \A j \in (i + 1)..Len(requests) :
                   requests[j].kind \in { "token", "config" }
             /\ configDigest = Empty =>
                   /\ ReturnedAfter(i)
                   /\ Contains(ret,
                         <<"unable to determine image config digest">>)
    /\ Len(replies) = Len(requests) => pc \in { "idle", "done" }
    /\ pc \notin { "idle", "done" } => Len(requests) = Len(replies) + 1

\* a nested manifest list without a config digest
C27_Witness ==
    /\ pc = "done"
    /\ Len(requests) = 2
    /\ NestedList(2)
    /\ configDigest = Empty

\* the markers of the fallback rules
Markers ==
    { "-docker.pkg.dev", ".gcr.io", ".amazonaws.com", ".azurecr.io" }

\* the marker is in the path, in the query or inside the host name
MarkerInside ==
    { <<"https://", "evil.example", "/x", "-docker.pkg.dev">>,
      <<"https://", "a", ".gcr.io", ".evil.example">>,
      <<"https://", "evil.example", "/?h=x", ".amazonaws.com">>,
      <<"https://", "x", ".azurecr.io", ".evil.example", "/path">> }

\* C28: a base URL outside the table that holds one of the markers
\* anywhere, in its path, in its query or inside its host name, is accepted
\* as supported, and the manifest request of a parsed reference goes, with
\* no credentials, to that URL as given.
C28_MarkerAnywhere ==
    LET url == call.pkg.RegistryBaseURL IN
    (/\ pc # "idle"
     /\ url \notin SupportedKeys
     /\ \/ \E i \in 1..Len(url) : url[i] \in Markers
        \/ url \in MarkerInside) =>
       /\ ~Contains(ret, <<"unsupported OCI registry">>)
       /\ apiBaseURL = url
       /\ SlashCount(call.pkg.Identifier) <= 1 =>
             /\ requests # <<>>
             /\ requests[1].kind = "manifest"
             /\ HasPrefix(requests[1].url, url \o <<"/v2/">>)
             /\ requests[1].Authorization = <<>>

\* the marker in the query of a foreign host
C28_Witness ==
    /\ pc = "awaitManifest"
    /\ call.pkg.RegistryBaseURL
          = <<"https://", "evil.example", "/?h=x", ".amazonaws.com">>
    /\ Len(requests) = 1

\* C29: a token answer with status 200 and a body that decodes and carries
\* no token, or an empty one, is no authentication failure: the fetch it
\* guards is sent with the header value "Bearer " and no credential after
\* it.
C29_EmptyTokenAccepted ==
    \A i \in 1..Len(requests) :
       (/\ requests[i].kind = "token"
        /\ Answered(i)
        /\ Decoded(i)
        /\ replies[i].token = Empty) =>
          /\ Len(requests) > i
          /\ IsFetch(i + 1)
          /\ requests[i + 1].Authorization = << <<"Bearer ">> >>
          /\ ~(Len(requests) = i + 1 /\ pc = "done" /\ ~Answered(i + 1))

\* the manifest request sent with an empty credential
C29_Witness ==
    /\ pc = "awaitManifest"
    /\ Len(requests) = 2
    /\ replies[1].status = 200
    /\ replies[1].token = Empty
    /\ requests[2].Authorization = << <<"Bearer ">> >>

----------------------------------------------------------------------------
(* Cancellation *)

\* C22: when the caller cancels or the timeout expires while a call is in
\* flight, no further request is sent, the call in flight ends with a
\* transport error, the invocation does not return success, and it
\* eventually returns.
C22_AbortPropagates ==
    /\ [][aborted # "none" => requests' = requests]_vars
    /\ []((aborted # "none" /\ pc = "done") =>
             /\ ret # Nil
             /\ Len(replies) = Len(requests)
             /\ replies[Len(replies)].transport)
    /\ (aborted # "none") ~> (pc = "done" /\ ret # Nil)

\* the timeout expired during the token request of the config fetch
C22_Witness ==
    /\ aborted = "timeout"
    /\ pc = "done"
    /\ Len(requests) = 3
    /\ requests[3].kind = "token"
    /\ Contains(ret, <<"failed to get image config">>)

----------------------------------------------------------------------------
(* Concurrent invocations *)

\* the invocation with the locals l is where it would be, has sent what it
\* would have sent and returns what it would return, had it run alone with
\* the answers it received
AsAlone(l) ==
    l.pc # "idle" =>
       LET r == Alone(l.call.pkg, l.call.serverName, l.received) IN
       /\ l.pc = r.pc
       /\ l.requests = r.requests
       /\ l.ret = r.ret

\* C23: under every interleaving of the steps of two invocations, each is
\* where it would be and has the requests and the result it would have had
\* it run alone with its own descriptor, its own owner and the answers to
\* its own requests.
C23_Independent ==
    /\ AsAlone(Locals)
    /\ AsAlone(parked)
    /\ Cardinality(ConcTokenResponses \ TokenResponses) = 0
    /\ Cardinality(ConcManifestResponses \ ManifestResponses) = 0
    /\ Cardinality(ConcConfigResponses \ ConfigResponses) = 0

\* two different invocations in the middle of their fetches
C23_Witness ==
    /\ pc = "awaitConfig"
    /\ parked.pc = "awaitSpecific"
    /\ call.pkg # parked.call.pkg
    /\ call.serverName # parked.call.serverName

----------------------------------------------------------------------------
(* Deployment of the logging stack *)

\* C30: DeployLoggingStack with a nil cluster returns an error and has
\* registered no resource, and with a cluster and an empty environment it
\* returns no error once its resources are registered.
C30_NilClusterReturnsError ==
    /\ (cluster = NilCluster /\ dpc \notin { "idle", "running" }) =>
          /\ dpc = "returned"
          /\ deployErr # Nil
          /\ resources = <<>>
    /\ (/\ cluster # NilCluster
        /\ environment = Empty
        /\ Len(resources) = Len(ResourceKinds)) =>
          /\ dpc = "returned"
          /\ deployErr = Nil

====
